--------------------------- MODULE Spec2Model ---------------------------
(***************************************************************************)
(* Medical appointments dashboard (dashboard/app.py).                      *)
(*                                                                         *)
(* The module-level code of app.py reads the CSV file, cleans it with      *)
(* load_and_clean_data, computes the summary statistics, builds the page   *)
(* layout (three controls, eight charts) and then serves the page; the     *)
(* callback update_charts re-renders four of the charts when a control     *)
(* changes.  Spec is the dashboard started on an input file.             *)
(*                                                                         *)
(* SpecEntryPoints has the dashboard and the report script                 *)
(* (dashboard/demo_insights.py), each with and without the input file, and *)
(* a caller that applies one chart function to a cleaned table.            *)
(*                                                                         *)
(* Conventions of the model:                                               *)
(*   - a table (DataFrame) is a sequence of records, one per row;          *)
(*   - timestamps are whole hours since 1970-01-01 00:00 (a Thursday);     *)
(*   - a missing value (NaN) of a text column is the string "NaN";         *)
(*   - a float computed by a division is the exact fraction                *)
(*     [num |-> n, den |-> d]; den = 0 is NaN (numpy's 0/0).               *)
(***************************************************************************)
EXTENDS Integers, Sequences, FiniteSets, TLC

VARIABLES
    pc,               \* position of the module-level code of app.py
    csv,              \* rows of medical_appointments.csv as read_csv returns them
    df,               \* module-level df (app.py:419)
    stats,            \* module-level stats (app.py:420)
    slider,           \* properties of the waiting-days-slider (app.py:528-541)
    age_group,        \* value of the age-group-filter dropdown
    gender,           \* value of the gender-filter dropdown
    max_waiting_days, \* value of the waiting-days-slider
    figures,          \* figure property of every dcc.Graph of the page
    filtered_df,      \* filtered_df of the last update_charts call
    request,          \* the last update_charts call: its arguments and outcome
    entry,            \* the script that runs, or a caller of one chart function
    file_exists,      \* whether medical_appointments.csv is in the directory
    output,           \* what the process has written to the terminal
    called            \* the call a caller made of a chart function, its result

vars == <<pc, csv, df, stats, slider, age_group, gender, max_waiting_days,
          figures, filtered_df, request, entry, file_exists, output, called>>

-----------------------------------------------------------------------------
(* Bounds of the model *)

\* most rows of an input file drawn from AnyRows
MaxAnyRows == 1

\* most rows of an input file drawn from ValidRows
MaxRows == 2

\* largest value a request gives to the waiting-days-slider
MaxWaitingDays == 1

\* most rows of an input file drawn from ViewRows
MaxViewRows == 3

\* most rows of an input file drawn from FlagRows
MaxFlagRows == 2

\* most rows of an input file drawn from NeighbourhoodRows
MaxNeighbourhoodRows == 3

\* most rows of an input file drawn from DemoRows
MaxDemoRows == 2

\* largest top_n a caller gives to create_neighborhood_analysis
MaxTopN == 2

-----------------------------------------------------------------------------
(* Values *)

NaN == "NaN"

\* numpy's nan as the result of 0/0
NaNFloat == [num |-> 0, den |-> 0]

IsNaNFloat(q) == q.den = 0

HoursPerDay == 24

\* dayofweek of 1970-01-01 (Thursday; Monday is 0)
EpochDayOfWeek == 3

DaysPerWeek == 7

Range(s) == {s[i] : i \in DOMAIN s}

Min(a, b) == IF a <= b THEN a ELSE b

\* every sequence over S of length at most n
SeqsUpTo(S, n) == UNION {[1..k -> S] : k \in 0..n}

\* Series.sum() of an integer column
RECURSIVE SumOf(_, _)
SumOf(t, col) ==
    IF t = <<>> THEN 0 ELSE t[1][col] + SumOf(Tail(t), col)


-----------------------------------------------------------------------------
(* The input file *)

\* No-show column of the file: 'Yes' is a missed appointment, 'No' an attended
\* one; an empty cell is read as NaN
Outcomes == {"Yes", "No"}

\* the Neighbourhood text as written in the file
RawNeighbourhoods == {" JARDIM camburi"}

\* input rows of every kind: ages at and around every bin edge of age_bins
\* and around the accepted range, a missing outcome, appointments before and
\* after the scheduling time
AnyRows ==
    [Gender : {"F"},
     ScheduledDay : {72, 80},
     AppointmentDay : {72, 96},
     Age : {-1, 0, 17, 18, 35, 36, 55, 56, 120, 121},
     Neighbourhood : RawNeighbourhoods,
     Scholarship : {0}, Hipertension : {0}, Diabetes : {0},
     Alcoholism : {0}, Handcap : {0}, SMS_received : {0},
     No_show : Outcomes \cup {NaN}]

\* input rows that pass the cleaning: two age groups, both genders, both
\* outcomes, appointments on a Thursday and on the Friday after it, scheduled
\* on that Thursday
ValidRows ==
    [Gender : {"F", "M"},
     ScheduledDay : {0},
     AppointmentDay : {0, 24},
     Age : {10, 40},
     Neighbourhood : RawNeighbourhoods,
     Scholarship : {0}, Hipertension : {0}, Diabetes : {0},
     Alcoholism : {0}, Handcap : {0}, SMS_received : {0},
     No_show : Outcomes]

\* pd.read_csv: the rows in file order; AppointmentID numbers the rows
read_csv(rows) ==
    [i \in DOMAIN rows |-> [AppointmentID |-> i] @@ rows[i]]

InputFiles ==
    {read_csv(rows) : rows \in SeqsUpTo(AnyRows, MaxAnyRows)
                             \cup SeqsUpTo(ValidRows, MaxRows)}

\* input rows for the filtered views: women with both outcomes and
\* appointments on the day of scheduling and on the day after, and a man who
\* attended on the day after; one age group
ViewRows ==
    [Gender : {"F"},
     ScheduledDay : {0},
     AppointmentDay : {0, 24},
     Age : {10},
     Neighbourhood : {"Centro"},
     Scholarship : {0}, Hipertension : {0}, Diabetes : {0},
     Alcoholism : {0}, Handcap : {0}, SMS_received : {0},
     No_show : Outcomes]
    \cup
    [Gender : {"M"},
     ScheduledDay : {0},
     AppointmentDay : {24},
     Age : {10},
     Neighbourhood : {"Centro"},
     Scholarship : {0}, Hipertension : {0}, Diabetes : {0},
     Alcoholism : {0}, Handcap : {0}, SMS_received : {0},
     No_show : {"No"}]

\* the values of the Handcap column of the file: the number of handicaps
HandcapValues == {0, 1, 2}

\* input rows for the flag columns: a binary condition, Handcap, the SMS
\* flag, both outcomes
FlagRows ==
    [Gender : {"F"},
     ScheduledDay : {0},
     AppointmentDay : {0},
     Age : {10},
     Neighbourhood : {"Centro"},
     Scholarship : {0}, Hipertension : {0, 1}, Diabetes : {0},
     Alcoholism : {0}, Handcap : HandcapValues, SMS_received : {0, 1},
     No_show : Outcomes]

\* input rows for the neighbourhoods: three neighbourhoods, one of them
\* written in two ways
NeighbourhoodRows ==
    [Gender : {"F"},
     ScheduledDay : {0},
     AppointmentDay : {0},
     Age : {10},
     Neighbourhood : {" JARDIM camburi", "Jardim Camburi", "CENTRO", "Maria Ortiz"},
     Scholarship : {0}, Hipertension : {0}, Diabetes : {0},
     Alcoholism : {0}, Handcap : {0}, SMS_received : {0},
     No_show : {"No"}]

\* input rows for the report of demo_insights.py: the two flags it indexes
\* by group, both outcomes
DemoRows ==
    [Gender : {"F"},
     ScheduledDay : {0},
     AppointmentDay : {0},
     Age : {10},
     Neighbourhood : {"Centro"},
     Scholarship : {0, 1}, Hipertension : {0}, Diabetes : {0},
     Alcoholism : {0}, Handcap : {0}, SMS_received : {0, 1},
     No_show : Outcomes]

\* the files the dashboard is started on
ViewFiles == {read_csv(rows) : rows \in SeqsUpTo(ViewRows, MaxViewRows)}

\* the files the report is run on
DemoFiles == {read_csv(rows) : rows \in SeqsUpTo(DemoRows, MaxDemoRows)}

\* the files whose cleaned table a caller gives to a chart function
CallerFiles ==
    {read_csv(rows) : rows \in SeqsUpTo(FlagRows, MaxFlagRows)
                             \cup SeqsUpTo(NeighbourhoodRows, MaxNeighbourhoodRows)}

-----------------------------------------------------------------------------
(* load_and_clean_data *)

age_bins == <<0, 18, 36, 56, 120>>

age_labels == <<"Children (0-17)", "Young Adults (18-35)",
                "Middle-aged (36-55)", "Seniors (56+)">>

\* pd.cut(x, bins, labels, right=False): bin i is [bins[i], bins[i+1]); a value
\* in no bin is NaN
cut(x, bins, labels) ==
    IF \E i \in 1..(Len(bins) - 1) : bins[i] <= x /\ x < bins[i + 1]
    THEN labels[CHOOSE i \in 1..(Len(bins) - 1) : bins[i] <= x /\ x < bins[i + 1]]
    ELSE NaN

day_names == <<"Monday", "Tuesday", "Wednesday", "Thursday", "Friday",
               "Saturday", "Sunday">>

\* Timedelta.days: whole days, rounded down
TimedeltaDays(hours) == hours \div HoursPerDay

\* Timestamp.dayofweek (0 = Monday .. 6 = Sunday)
dayofweek(ts) == ((ts \div HoursPerDay) + EpochDayOfWeek) % DaysPerWeek

\* str.strip().str.title()
StripTitle(s) ==
    CASE s = " JARDIM camburi" -> "Jardim Camburi"
      [] s = "CENTRO" -> "Centro"
      [] s = NaN -> NaN
      [] OTHER -> s

\* variant of NoShowBinary: the comparison made with the other label
NoShowBinary_No(outcome) == IF outcome = "No" THEN 1 ELSE 0

\* (df['No-show'] == 'Yes').astype(int)
NoShowBinary(outcome) == IF outcome = "Yes" THEN 1 ELSE 0

\* lines 39-59: the derived columns of one row
Derive(r) ==
    [r EXCEPT !.Neighbourhood = StripTitle(r.Neighbourhood)] @@
    [DaysWaiting |-> TimedeltaDays(r.AppointmentDay - r.ScheduledDay),
     DayOfWeek |-> dayofweek(r.AppointmentDay),
     DayOfWeekName |-> day_names[dayofweek(r.AppointmentDay) + 1],
     AgeGroup |-> cut(r.Age, age_bins, age_labels),
     NoShow_Binary |-> NoShowBinary(r.No_show)]

\* the columns that can hold a missing value
TextColumns == {"Gender", "Neighbourhood", "No_show", "DayOfWeekName", "AgeGroup"}

\* DataFrame.dropna keeps the rows without a missing value
NoNaN(r) == \A c \in TextColumns : r[c] # NaN

\* variant of WaitingOk: the filter on the waiting days left out
WaitingOk_off(r) == TRUE

WaitingOk(r) == r.DaysWaiting >= 0

AgeOk(r) == r.Age >= 0 /\ r.Age <= 120

load_and_clean_data(file) ==
    LET derived == [i \in DOMAIN file |-> Derive(file[i])]
        dropped == SelectSeq(derived, NoNaN)
        waited == SelectSeq(dropped, WaitingOk)
    IN  SelectSeq(waited, AgeOk)

-----------------------------------------------------------------------------
(* pandas operations used by the statistics and the charts *)

\* a / b on numpy numbers: 0/0 is nan, not an exception
Div(a, b) == IF b = 0 THEN NaNFloat ELSE [num |-> a, den |-> b]

\* q * k for a float q and an integer k
Times(q, k) == IF IsNaNFloat(q) THEN q ELSE [num |-> q.num * k, den |-> q.den]

\* a <= q for an integer a and a float q; every comparison with nan is False
LessEq(a, q) == ~IsNaNFloat(q) /\ a * q.den <= q.num

\* int(q): toward zero; int(nan) raises ValueError (the caller tests for it)
IntOf(q) == IF q.num >= 0 THEN q.num \div q.den ELSE -((-q.num) \div q.den)

Column(t, col) == [i \in DOMAIN t |-> t[i][col]]

\* Series.mean(): nan for an empty series
Mean(t, col) == Div(SumOf(t, col), Len(t))

\* the k-th smallest element (k from 0) of a non-empty sequence
KthSmallest(xs, k) ==
    CHOOSE v \in Range(xs) :
        /\ Cardinality({i \in DOMAIN xs : xs[i] < v}) <= k
        /\ k < Cardinality({i \in DOMAIN xs : xs[i] <= v})

QuantileNum == 19

QuantileDen == 20

\* Series.quantile(0.95), linear interpolation between the two order
\* statistics around position 0.95 * (n - 1); nan for an empty series
quantile(xs) ==
    IF xs = <<>> THEN NaNFloat
    ELSE LET n == Len(xs)
             pos == QuantileNum * (n - 1)
             lo == pos \div QuantileDen
             rem == pos % QuantileDen
             hi == Min(lo + 1, n - 1)
             xlo == KthSmallest(xs, lo)
             xhi == KthSmallest(xs, hi)
         IN  [num |-> QuantileDen * xlo + rem * (xhi - xlo), den |-> QuantileDen]

\* Series.value_counts(): the distinct values with their counts, most frequent
\* first, equally frequent values in order of first appearance
value_counts(t, col) ==
    LET V == {t[i][col] : i \in DOMAIN t}
        cnt(v) == Cardinality({i \in DOMAIN t : t[i][col] = v})
        first(v) == CHOOSE i \in DOMAIN t :
                        t[i][col] = v /\ \A j \in 1..(i - 1) : t[j][col] # v
        Before(a, b) == cnt(a) > cnt(b) \/ (cnt(a) = cnt(b) /\ first(a) < first(b))
        rank(v) == 1 + Cardinality({w \in V : Before(w, v)})
    IN  [k \in 1..Cardinality(V) |->
            LET v == CHOOSE w \in V : rank(w) = k
            IN  [value |-> v, count |-> cnt(v)]]

\* the elements of the sequence order that are in the set S, in that order
RECURSIVE Within(_, _)
Within(order, S) ==
    IF order = <<>> THEN <<>>
    ELSE (IF Head(order) \in S THEN <<Head(order)>> ELSE <<>>)
             \o Within(Tail(order), S)

\* the order of str values: groupby lists its group keys sorted
StrOrder == <<"Centro", "F", "Friday", "Jardim Camburi", "M", "Maria Ortiz",
              "Monday", "Saturday", "Sunday", "Thursday", "Tuesday", "Wednesday">>

\* the order of the int values of the flag columns
IntOrder == <<0, 1, 2, 3, 4>>

\* the keys of df.groupby(col), observed values only, sorted
GroupKeys(t, col, order) == Within(order, {t[i][col] : i \in DOMAIN t})

\* the rows of one group
Group(t, col, key) == SelectSeq(t, LAMBDA r : r[col] = key)

-----------------------------------------------------------------------------
(* calculate_summary_statistics *)

conditions3 == <<"Hipertension", "Diabetes", "Alcoholism">>

\* variant of show_rate_of: the no-shows not subtracted
show_rate_of_all(total_appointments, no_shows) ==
    Times(Div(total_appointments, total_appointments), 100)

\* ((total_appointments - no_shows) / total_appointments) * 100
show_rate_of(total_appointments, no_shows) ==
    Times(Div(total_appointments - no_shows, total_appointments), 100)

\* (no_shows / total_appointments) * 100
no_show_rate_of(total_appointments, no_shows) ==
    Times(Div(no_shows, total_appointments), 100)

calculate_summary_statistics(t) ==
    LET total_appointments == Len(t)
        no_shows == SumOf(t, "NoShow_Binary")
    IN  [total_appointments |-> total_appointments,
         show_rate |-> show_rate_of(total_appointments, no_shows),
         no_show_rate |-> no_show_rate_of(total_appointments, no_shows),
         avg_age |-> Mean(t, "Age"),
         avg_waiting_days |-> Mean(t, "DaysWaiting"),
         gender_counts |-> value_counts(t, "Gender"),
         condition_stats |->
             [k \in DOMAIN conditions3 |->
                 [condition |-> conditions3[k],
                  prevalence |-> Times(Div(SumOf(t, conditions3[k]), Len(t)), 100)]]]

-----------------------------------------------------------------------------
(* The chart functions.  A figure is the data it plots. *)

\* the exception of a px call whose arguments have different lengths
ValueError == [kind |-> "ValueError"]

\* px.pie(values=show_counts.values, names=['Showed Up', 'No Show']): the
\* k-th name labels the k-th value; px refuses arguments of different lengths
create_no_show_overview_chart(t) ==
    LET show_counts == value_counts(t, "No_show")
        names == <<"Showed Up", "No Show">>
    IN  IF Len(show_counts) # Len(names) THEN ValueError
        ELSE [kind |-> "pie",
              slices |-> [k \in DOMAIN names |->
                             [name |-> names[k], value |-> show_counts[k].count]]]

\* groupby(['AgeGroup', 'Gender']): AgeGroup is categorical, so every
\* category is a group, with count 0 and sum 0 when no row is in it
create_age_gender_analysis(t) ==
    LET genders == GroupKeys(t, "Gender", StrOrder)
        cell(a, g) ==
            LET rows == SelectSeq(t, LAMBDA r : r.AgeGroup = age_labels[a]
                                                    /\ r.Gender = genders[g])
            IN  [AgeGroup |-> age_labels[a], Gender |-> genders[g],
                 count |-> Len(rows), sum |-> SumOf(rows, "NoShow_Binary"),
                 NoShowRate |-> Times(Div(SumOf(rows, "NoShow_Binary"), Len(rows)), 100)]
    IN  [kind |-> "age_gender",
         rows |-> [k \in 1..(Len(age_labels) * Len(genders)) |->
                      cell(((k - 1) \div Len(genders)) + 1,
                           ((k - 1) % Len(genders)) + 1)]]

day_order == <<"Monday", "Tuesday", "Wednesday", "Thursday", "Friday",
               "Saturday", "Sunday">>

\* position of a value in the categories of a Categorical
CategoryCode(categories, v) == CHOOSE k \in DOMAIN categories : categories[k] = v

\* variant of sort_values: the rows left in the order of groupby
sort_values_off(rows, col, categories) == rows

\* DataFrame.sort_values on an ordered categorical column of distinct values
sort_values(rows, col, categories) ==
    LET code(i) == CategoryCode(categories, rows[i][col])
        rank(i) == 1 + Cardinality({j \in DOMAIN rows : code(j) < code(i)})
    IN  [k \in DOMAIN rows |-> rows[CHOOSE i \in DOMAIN rows : rank(i) = k]]

\* lines 191-198: one row per day name that occurs, in the order of groupby
day_stats_of(t) ==
    LET keys == GroupKeys(t, "DayOfWeekName", StrOrder)
    IN  [k \in DOMAIN keys |->
            LET rows == Group(t, "DayOfWeekName", keys[k])
            IN  [DayOfWeek |-> keys[k],
                 TotalAppointments |-> Len(rows),
                 NoShows |-> SumOf(rows, "NoShow_Binary"),
                 NoShowRate |-> Times(Mean(rows, "NoShow_Binary"), 100)]]

create_day_of_week_analysis(t) ==
    [kind |-> "day_of_week",
     rows |-> sort_values(day_stats_of(t), "DayOfWeek", day_order)]

\* variant of create_waiting_time_analysis: the percentile taken from the
\* module-level table
create_waiting_time_analysis_of_df(t) ==
    LET waiting_time_95th == quantile(Column(df, "DaysWaiting"))
        df_filtered == SelectSeq(t, LAMBDA r : LessEq(r.DaysWaiting, waiting_time_95th))
    IN  [kind |-> "histogram",
         rows |-> [i \in DOMAIN df_filtered |->
                      [DaysWaiting |-> df_filtered[i].DaysWaiting,
                       No_show |-> df_filtered[i].No_show]]]

\* the histogram plots the rows up to the 95th percentile of the table given
create_waiting_time_analysis(t) ==
    LET waiting_time_95th == quantile(Column(t, "DaysWaiting"))
        df_filtered == SelectSeq(t, LAMBDA r : LessEq(r.DaysWaiting, waiting_time_95th))
    IN  [kind |-> "histogram",
         rows |-> [i \in DOMAIN df_filtered |->
                      [DaysWaiting |-> df_filtered[i].DaysWaiting,
                       No_show |-> df_filtered[i].No_show]]]

conditions4 == <<"Hipertension", "Diabetes", "Alcoholism", "Handcap">>

\* df[df[condition] == 1]
with_condition_rows(t, condition) ==
    SelectSeq(t, LAMBDA r : r[condition] = 1)

\* df[df[condition] == 0]
without_condition_rows(t, condition) ==
    SelectSeq(t, LAMBDA r : r[condition] = 0)

create_medical_conditions_analysis(t) ==
    [kind |-> "conditions",
     rows |-> [k \in 1..(2 * Len(conditions4)) |->
                  LET condition == conditions4[(k + 1) \div 2]
                  IN  IF k % 2 = 1
                      THEN [Condition |-> condition, Group |-> "With Condition",
                            NoShowRate |->
                                Times(Mean(with_condition_rows(t, condition),
                                           "NoShow_Binary"), 100)]
                      ELSE [Condition |-> condition, Group |-> "Without Condition",
                            NoShowRate |->
                                Times(Mean(without_condition_rows(t, condition),
                                           "NoShow_Binary"), 100)]]]

default_top_n == 15

\* variant of nlargest: the first top_n rows of the table, as head(top_n)
nlargest_head(rows, top_n) == SubSeq(rows, 1, Min(top_n, Len(rows)))

\* DataFrame.nlargest(top_n, 'TotalAppointments'): the top_n rows by count,
\* largest first, equal counts in the order of the table
nlargest(rows, top_n) ==
    LET Before(i, j) ==
            \/ rows[i].TotalAppointments > rows[j].TotalAppointments
            \/ rows[i].TotalAppointments = rows[j].TotalAppointments /\ i < j
        rank(i) == 1 + Cardinality({j \in DOMAIN rows : Before(j, i)})
    IN  [k \in 1..Min(top_n, Len(rows)) |-> rows[CHOOSE i \in DOMAIN rows : rank(i) = k]]

create_neighborhood_analysis(t, top_n) ==
    LET keys == GroupKeys(t, "Neighbourhood", StrOrder)
        neighborhood_stats ==
            [k \in DOMAIN keys |->
                LET rows == Group(t, "Neighbourhood", keys[k])
                IN  [Neighbourhood |-> keys[k],
                     TotalAppointments |-> Len(rows),
                     NoShowRate |-> Times(Mean(rows, "NoShow_Binary"), 100)]]
    IN  [kind |-> "neighborhood", rows |-> nlargest(neighborhood_stats, top_n)]

\* df.groupby(col)['NoShow_Binary'].mean() * 100: one mean per value of the
\* column that occurs, in key order
group_rates(t, col) ==
    LET keys == GroupKeys(t, col, IntOrder)
    IN  [k \in DOMAIN keys |->
            Times(Mean(Group(t, col, keys[k]), "NoShow_Binary"), 100)]

\* go.Bar(x=labels, y=values): the k-th label is under the k-th value; the
\* trace has as many bars as the shorter of the two
Bar(x, y) == [k \in 1..Min(Len(x), Len(y)) |-> [x |-> x[k], y |-> y[k]]]

\* lines 383-398: the group means in key order under two fixed labels
create_sms_scholarship_analysis(t) ==
    [kind |-> "sms_scholarship",
     sms |-> Bar(<<"No SMS", "SMS Received">>, group_rates(t, "SMS_received")),
     scholarship |-> Bar(<<"No Scholarship", "Has Scholarship">>,
                         group_rates(t, "Scholarship"))]

-----------------------------------------------------------------------------
(* update_charts *)

AgeGroupOptions == {"all"} \cup Range(age_labels)

GenderOptions == {"all", "F", "M"}

\* the four Outputs of the callback, in the order of the returned tuple
CallbackOutputs == <<"no-show-overview", "age-gender-analysis",
                     "waiting-time-analysis", "medical-conditions-analysis">>

\* the graphs of the layout no callback writes
StaticGraphs == {"day-of-week-analysis", "sms-scholarship-analysis",
                 "neighborhood-analysis"}

\* variant of FilterView: the waiting-days threshold taken as exclusive
FilterView_exclusive(base, ag, g, m) ==
    LET by_age == IF ag # "all"
                  THEN SelectSeq(base, LAMBDA r : r.AgeGroup = ag) ELSE base
        by_gender == IF g # "all"
                     THEN SelectSeq(by_age, LAMBDA r : r.Gender = g) ELSE by_age
    IN  SelectSeq(by_gender, LAMBDA r : r.DaysWaiting < m)

\* lines 653-664: filtered_df, from a copy of the module-level table
FilterView(base, ag, g, m) ==
    LET copy == base
        by_age == IF ag # "all"
                  THEN SelectSeq(copy, LAMBDA r : r.AgeGroup = ag) ELSE copy
        by_gender == IF g # "all"
                     THEN SelectSeq(by_age, LAMBDA r : r.Gender = g) ELSE by_age
    IN  SelectSeq(by_gender, LAMBDA r : r.DaysWaiting <= m)

\* variant of update_charts: the module-level table filtered in place, no copy
update_charts_in_place(base, ag, g, m) ==
    LET view == FilterView(base, ag, g, m)
        no_show_fig == create_no_show_overview_chart(view)
    IN  [df |-> view,
         filtered_df |-> view,
         raised |-> no_show_fig = ValueError,
         returned |-> IF no_show_fig = ValueError THEN <<>>
                      ELSE <<no_show_fig,
                             create_age_gender_analysis(view),
                             create_waiting_time_analysis(view),
                             create_medical_conditions_analysis(view)>>]

\* The call update_charts(age_group, gender, max_waiting_days) with the
\* module-level table base: the module-level table after the call, the local
\* filtered_df, whether the call raised, and the returned figures.  The pie
\* chart is built first, so its exception ends the call.
update_charts(base, ag, g, m) ==
    LET view == FilterView(base, ag, g, m)
        no_show_fig == create_no_show_overview_chart(view)
    IN  [df |-> base,
         filtered_df |-> view,
         raised |-> no_show_fig = ValueError,
         returned |-> IF no_show_fig = ValueError THEN <<>>
                      ELSE <<no_show_fig,
                             create_age_gender_analysis(view),
                             create_waiting_time_analysis(view),
                             create_medical_conditions_analysis(view)>>]

\* Dash writes the returned figures to the Outputs; a callback that raised
\* writes nothing and the page keeps the figures it shows
Rendered(shown, call) ==
    IF call.raised THEN shown
    ELSE [id \in DOMAIN shown |->
             IF \E k \in DOMAIN CallbackOutputs : CallbackOutputs[k] = id
             THEN call.returned[CHOOSE k \in DOMAIN CallbackOutputs : CallbackOutputs[k] = id]
             ELSE shown[id]]

-----------------------------------------------------------------------------
(* The program *)

None == [kind |-> "None"]

Init ==
    /\ pc = "load"
    /\ csv \in InputFiles
    /\ df = <<>>
    /\ stats = None
    /\ slider = None
    /\ age_group = "all"
    /\ gender = "all"
    /\ max_waiting_days = 0
    /\ figures = None
    /\ filtered_df = <<>>
    /\ request = None
    /\ entry = "app.py"
    /\ file_exists = TRUE
    /\ output = None
    /\ called = None

\* what the interpreter writes when an exception reaches the top level
Traceback(exception) == [kind |-> "traceback", exception |-> exception]

\* app.py:419, and the load a caller of a chart function does first
LoadData ==
    /\ pc = "load"
    /\ entry \in {"app.py", "caller"}
    /\ file_exists
    /\ df' = load_and_clean_data(csv)
    /\ pc' = "stats"
    /\ UNCHANGED <<csv, stats, slider, age_group, gender, max_waiting_days,
                   figures, filtered_df, request,
                   entry, file_exists, output, called>>

\* app.py:419 without the file: read_csv (line 27) raises FileNotFoundError,
\* nothing catches it, the process ends before line 690 starts the server
LoadFails ==
    /\ pc = "load"
    /\ entry = "app.py"
    /\ ~file_exists
    /\ pc' = "crashed"
    /\ output' = Traceback("FileNotFoundError")
    /\ UNCHANGED <<csv, df, stats, slider, age_group, gender, max_waiting_days,
                   figures, filtered_df, request, entry, file_exists, called>>

\* app.py:420
SummaryStatistics ==
    /\ pc = "stats"
    /\ entry = "app.py"
    /\ stats' = calculate_summary_statistics(df)
    /\ pc' = "layout"
    /\ UNCHANGED <<csv, df, slider, age_group, gender, max_waiting_days,
                   figures, filtered_df, request,
                   entry, file_exists, output, called>>

\* variant of SliderDefault: the percentile rounded up
SliderDefault_up(t) ==
    LET q == quantile(Column(t, "DaysWaiting"))
    IN  IF q.num % q.den = 0 THEN q.num \div q.den ELSE (q.num \div q.den) + 1

\* int(df['DaysWaiting'].quantile(0.95)), the max and the value of the slider
SliderDefault(t) == IntOf(quantile(Column(t, "DaysWaiting")))

\* the figures of the seven graphs of the layout, all of the whole table
LayoutFigures(t) ==
    [id \in Range(CallbackOutputs) \cup StaticGraphs |->
        CASE id = "no-show-overview" -> create_no_show_overview_chart(t)
          [] id = "age-gender-analysis" -> create_age_gender_analysis(t)
          [] id = "day-of-week-analysis" -> create_day_of_week_analysis(t)
          [] id = "waiting-time-analysis" -> create_waiting_time_analysis(t)
          [] id = "medical-conditions-analysis" -> create_medical_conditions_analysis(t)
          [] id = "sms-scholarship-analysis" -> create_sms_scholarship_analysis(t)
          [] id = "neighborhood-analysis" -> create_neighborhood_analysis(t, default_top_n)]

\* app.py:430-623 raises when int() is given nan (an empty table) or when
\* the pie chart of the whole table raises
LayoutRaises(t) ==
    \/ IsNaNFloat(quantile(Column(t, "DaysWaiting")))
    \/ create_no_show_overview_chart(t) = ValueError

\* app.py:430-623, the layout is built and the server starts
BuildLayout ==
    /\ pc = "layout"
    /\ ~LayoutRaises(df)
    /\ slider' = [min |-> 0, max |-> SliderDefault(df), value |-> SliderDefault(df)]
    /\ max_waiting_days' = SliderDefault(df)
    /\ figures' = LayoutFigures(df)
    /\ pc' = "serving"
    /\ UNCHANGED <<csv, df, stats, age_group, gender, filtered_df, request,
                   entry, file_exists, output, called>>

\* app.py:430-623, an exception ends the process before the server starts
LayoutFails ==
    /\ pc = "layout"
    /\ LayoutRaises(df)
    /\ pc' = "crashed"
    /\ output' = Traceback("ValueError")
    /\ UNCHANGED <<csv, df, stats, slider, age_group, gender, max_waiting_days,
                   figures, filtered_df, request,
                   entry, file_exists, called>>

\* one call of the callback with the values ag, g, m of the three controls
Callback(ag, g, m) ==
    \E call \in {update_charts(df, ag, g, m)} :
        /\ age_group' = ag
        /\ gender' = g
        /\ max_waiting_days' = m
        /\ df' = call.df
        /\ filtered_df' = call.filtered_df
        /\ figures' = Rendered(figures, call)
        /\ request' = [age_group |-> ag, gender |-> g, max_waiting_days |-> m,
                       raised |-> call.raised]
        /\ UNCHANGED <<pc, csv, stats, slider,
                   entry, file_exists, output, called>>

\* the page is opened: Dash calls the callback with the values of the layout
PageLoad ==
    /\ pc = "serving"
    /\ request = None
    /\ Callback(age_group, gender, max_waiting_days)

ChangeAgeGroup ==
    /\ pc = "serving"
    /\ request # None
    /\ \E v \in AgeGroupOptions \ {age_group} :
           Callback(v, gender, max_waiting_days)

ChangeGender ==
    /\ pc = "serving"
    /\ request # None
    /\ \E v \in GenderOptions \ {gender} :
           Callback(age_group, v, max_waiting_days)

\* the callback takes the value the request carries
ChangeWaitingDays ==
    /\ pc = "serving"
    /\ request # None
    /\ \E v \in (0..MaxWaitingDays) \ {max_waiting_days} :
           Callback(age_group, gender, v)

Next ==
    \/ LoadData
    \/ SummaryStatistics
    \/ BuildLayout
    \/ LayoutFails
    \/ PageLoad
    \/ ChangeAgeGroup
    \/ ChangeGender
    \/ ChangeWaitingDays

Spec == Init /\ [][Next]_vars

-----------------------------------------------------------------------------
(* demo_insights.py *)

\* the flag column has a row of value 0 and a row of value 1, so that the
\* group means can be indexed by [0] and by [1]
BothGroups(file, col) ==
    /\ \E i \in DOMAIN file : file[i][col] = 0
    /\ \E i \in DOMAIN file : file[i][col] = 1

\* analyze_medical_appointments(): the exception that ends it, "None" when
\* it returns.  read_csv raises without the file (line 20), NaT.strftime on
\* the dates of an empty table (line 31), the index [0] or [1] of a group
\* mean of a value that does not occur (lines 87-91)
analyze_medical_appointments(exists, file) ==
    CASE ~exists -> "FileNotFoundError"
      [] exists /\ file = <<>> -> "ValueError"
      [] exists /\ file # <<>> /\ ~BothGroups(file, "SMS_received") -> "KeyError"
      [] exists /\ file # <<>> /\ BothGroups(file, "SMS_received")
             /\ ~BothGroups(file, "Scholarship") -> "KeyError"
      [] OTHER -> "None"

\* variant of main: no handler for any other exception
main_without_except_Exception(raised) ==
    CASE raised = "None" -> [kind |-> "report"]
      [] raised = "FileNotFoundError" ->
             [kind |-> "message", text |-> "medical_appointments.csv not found!"]
      [] OTHER -> Traceback(raised)

\* lines 120-127: what the run has printed when the try statement is left
main(raised) ==
    CASE raised = "None" -> [kind |-> "report"]
      [] raised = "FileNotFoundError" ->
             [kind |-> "message", text |-> "medical_appointments.csv not found!"]
      [] OTHER -> [kind |-> "message", text |-> raised]

\* python3 demo_insights.py
DemoRun ==
    /\ pc = "load"
    /\ entry = "demo_insights.py"
    /\ output' = main(analyze_medical_appointments(file_exists, csv))
    /\ pc' = "exited"
    /\ UNCHANGED <<csv, df, stats, slider, age_group, gender, max_waiting_days,
                   figures, filtered_df, request, entry, file_exists, called>>

-----------------------------------------------------------------------------
(* A caller of one chart function, on the cleaned table *)

\* the values a caller gives to top_n, the default among them
TopNs == (0..MaxTopN) \cup {default_top_n}

CallNeighborhoodAnalysis ==
    /\ pc = "stats"
    /\ entry = "caller"
    /\ \E top_n \in TopNs :
           called' = [fn |-> "create_neighborhood_analysis", args |-> <<top_n>>,
                      result |-> create_neighborhood_analysis(df, top_n)]
    /\ pc' = "returned"
    /\ UNCHANGED <<csv, df, stats, slider, age_group, gender, max_waiting_days,
                   figures, filtered_df, request, entry, file_exists, output>>

CallMedicalConditionsAnalysis ==
    /\ pc = "stats"
    /\ entry = "caller"
    /\ called' = [fn |-> "create_medical_conditions_analysis", args |-> <<>>,
                  result |-> create_medical_conditions_analysis(df)]
    /\ pc' = "returned"
    /\ UNCHANGED <<csv, df, stats, slider, age_group, gender, max_waiting_days,
                   figures, filtered_df, request, entry, file_exists, output>>

CallSmsScholarshipAnalysis ==
    /\ pc = "stats"
    /\ entry = "caller"
    /\ called' = [fn |-> "create_sms_scholarship_analysis", args |-> <<>>,
                  result |-> create_sms_scholarship_analysis(df)]
    /\ pc' = "returned"
    /\ UNCHANGED <<csv, df, stats, slider, age_group, gender, max_waiting_days,
                   figures, filtered_df, request, entry, file_exists, output>>

-----------------------------------------------------------------------------
(* The two scripts and the callers, with and without the input file *)

InitEntryPoints ==
    /\ pc = "load"
    /\ \/ /\ entry = "app.py"
          /\ \/ file_exists = TRUE /\ csv \in ViewFiles
             \/ file_exists = FALSE /\ csv = <<>>
       \/ /\ entry = "demo_insights.py"
          /\ \/ file_exists = TRUE /\ csv \in DemoFiles
             \/ file_exists = FALSE /\ csv = <<>>
       \/ /\ entry = "caller"
          /\ file_exists = TRUE
          /\ csv \in CallerFiles
    /\ df = <<>>
    /\ stats = None
    /\ slider = None
    /\ age_group = "all"
    /\ gender = "all"
    /\ max_waiting_days = 0
    /\ figures = None
    /\ filtered_df = <<>>
    /\ request = None
    /\ output = None
    /\ called = None

NextEntryPoints ==
    \/ LoadData
    \/ LoadFails
    \/ SummaryStatistics
    \/ BuildLayout
    \/ LayoutFails
    \/ PageLoad
    \/ ChangeAgeGroup
    \/ ChangeGender
    \/ ChangeWaitingDays
    \/ DemoRun
    \/ CallNeighborhoodAnalysis
    \/ CallMedicalConditionsAnalysis
    \/ CallSmsScholarshipAnalysis

SpecEntryPoints == InitEntryPoints /\ [][NextEntryPoints]_vars

-----------------------------------------------------------------------------
(* Properties *)

Loaded == pc # "load"

HasStats == pc \notin {"load", "stats"}

\* the float q is the integer k
EqualsInt(q, k) == ~IsNaNFloat(q) /\ q.num = k * q.den

\* C1: every row of the table load_and_clean_data returns has
\* DaysWaiting >= 0 and 0 <= Age <= 120.
C1_CleanRowsValid ==
    Loaded => \A i \in DOMAIN df :
                  /\ df[i].DaysWaiting >= 0
                  /\ 0 <= df[i].Age /\ df[i].Age <= 120

\* a file whose only row is scheduled on the day of the appointment, eight
\* hours into it, for a patient of age 0: the row is kept, the same row with
\* an appointment a day before is not
C1_Witness ==
    /\ Loaded
    /\ \E i \in DOMAIN df : df[i].Age = 0 /\ df[i].DaysWaiting = 0
                                /\ df[i].ScheduledDay > df[i].AppointmentDay - HoursPerDay
                                /\ df[i].ScheduledDay # df[i].AppointmentDay

\* the rows of the file the claim C2 says are kept: no missing field,
\* DaysWaiting >= 0 and Age in [0, 120]
Kept(file) ==
    {i \in DOMAIN file :
        /\ \A c \in TextColumns \cap DOMAIN file[i] : file[i][c] # NaN
        /\ TimedeltaDays(file[i].AppointmentDay - file[i].ScheduledDay) >= 0
        /\ 0 <= file[i].Age /\ file[i].Age <= 120}

\* C2: load_and_clean_data drops a row if and only if it has a missing
\* field, DaysWaiting < 0 or Age outside [0, 120]; a row of Age 120 that is
\* valid otherwise is in the cleaned table.
C2_DropsExactlyInvalid ==
    Loaded => {df[i].AppointmentID : i \in DOMAIN df} = Kept(csv)

\* the bucket of an age under the bins [0,18), [18,36), [36,56), [56,120]
ClaimedAgeGroup(a) ==
    CASE 0 <= a /\ a < 18 -> "Children (0-17)"
      [] 18 <= a /\ a < 36 -> "Young Adults (18-35)"
      [] 36 <= a /\ a < 56 -> "Middle-aged (36-55)"
      [] 56 <= a /\ a <= 120 -> "Seniors (56+)"

\* C3: every age in [0, 120], both ends included, gets exactly one of the
\* four labels, that of its bucket among [0,18), [18,36), [36,56), [56,120].
C3_AgeGroupTotal ==
    Loaded => \A i \in DOMAIN csv :
                  (0 <= csv[i].Age /\ csv[i].Age <= 120) =>
                      /\ Cardinality({k \in DOMAIN age_labels :
                             Derive(csv[i]).AgeGroup = age_labels[k]}) = 1
                      /\ Derive(csv[i]).AgeGroup = ClaimedAgeGroup(csv[i].Age)

\* C4: NoShow_Binary of a record is 1 when its outcome is a no-show
\* (No-show = 'Yes') and 0 otherwise, so a table of no-shows only has a
\* no-show rate of 100%.
C4_NoShowBinary ==
    /\ Loaded => \A i \in DOMAIN df :
                     /\ df[i].No_show = "Yes" => df[i].NoShow_Binary = 1
                     /\ df[i].No_show # "Yes" => df[i].NoShow_Binary = 0
    /\ HasStats /\ df # <<>> /\ (\A i \in DOMAIN df : df[i].No_show = "Yes")
           => EqualsInt(stats.no_show_rate, 100)

\* the statistics of a table of two missed appointments
C4_Witness ==
    /\ HasStats
    /\ Len(df) = 2
    /\ \A i \in DOMAIN df : df[i].No_show = "Yes" /\ df[i].NoShow_Binary = 1

\* C5: for a non-empty cleaned table show_rate + no_show_rate = 100 and
\* no_show_rate = 100 * (rows with NoShow_Binary = 1) / (rows).
C5_RatesSumTo100 ==
    HasStats /\ df # <<>> =>
        LET s == stats.show_rate
            n == stats.no_show_rate
            missed == Cardinality({i \in DOMAIN df : df[i].NoShow_Binary = 1})
        IN  /\ ~IsNaNFloat(s) /\ ~IsNaNFloat(n)
            /\ s.num * n.den + n.num * s.den = 100 * s.den * n.den
            /\ n.num * Len(df) = 100 * missed * n.den

\* the statistics of a table of one missed and one attended appointment
C5_Witness ==
    /\ HasStats
    /\ Len(df) = 2
    /\ \E i, j \in DOMAIN df : df[i].NoShow_Binary = 1 /\ df[j].NoShow_Binary = 0

\* the row r passes the three filters
Matches(r, ag, g, m) ==
    /\ ag = "all" \/ r.AgeGroup = ag
    /\ g = "all" \/ r.Gender = g
    /\ r.DaysWaiting <= m

\* the rows of the base table that pass the current values of the controls
CurrentView == SelectSeq(df, LAMBDA r : Matches(r, age_group, gender, max_waiting_days))

\* C6: the filtered view of update_charts is exactly the rows of the base
\* table with (age_group = 'all' or AgeGroup = age_group) and (gender = 'all'
\* or Gender = gender) and DaysWaiting <= max_waiting_days; with 'all', 'all'
\* and a threshold no smaller than every DaysWaiting it is the whole table.
C6_FilteredView ==
    request # None =>
        /\ filtered_df = CurrentView
        /\ (/\ age_group = "all"
            /\ gender = "all"
            /\ \A i \in DOMAIN df : df[i].DaysWaiting <= max_waiting_days)
               => filtered_df = df

\* both selectors set, the threshold equal to the DaysWaiting of the one row
\* of two that passes
C6_Witness ==
    /\ request # None
    /\ age_group # "all"
    /\ gender # "all"
    /\ Len(df) = 2
    /\ Len(filtered_df) = 1
    /\ filtered_df[1].DaysWaiting = max_waiting_days
    /\ max_waiting_days > 0

Percentile95 == quantile(Column(df, "DaysWaiting"))

\* C7 as claimed: the initial value of the maximum-waiting-days control is
\* the 95th percentile of DaysWaiting over the cleaned table.
C7_DefaultIsPercentile ==
    pc = "serving" => EqualsInt(Percentile95, slider.value)

\* C7 as amended: for a non-empty cleaned table the initial value of the
\* control is the 95th percentile of DaysWaiting over the cleaned table with
\* its fraction cut off, and the control holds it until the first request.
C7_DefaultIsTruncatedPercentile ==
    pc = "serving" =>
        /\ df # <<>>
        /\ ~IsNaNFloat(Percentile95)
        /\ slider.value * Percentile95.den <= Percentile95.num
        /\ Percentile95.num < (slider.value + 1) * Percentile95.den
        /\ request = None => max_waiting_days = slider.value

\* a served table whose 95th percentile is no whole number
C7_Witness ==
    /\ pc = "serving"
    /\ Percentile95.num % Percentile95.den # 0

\* C8: after any sequence of filter changes the four charts of the callback
\* show the figures computed from the base table under the current values of
\* the three controls, whatever the earlier values were.
C8_FiguresFollowFilters ==
    request # None =>
        /\ figures["no-show-overview"] = create_no_show_overview_chart(CurrentView)
        /\ figures["age-gender-analysis"] = create_age_gender_analysis(CurrentView)
        /\ figures["waiting-time-analysis"] = create_waiting_time_analysis(CurrentView)
        /\ figures["medical-conditions-analysis"] =
               create_medical_conditions_analysis(CurrentView)

\* C9: the module-level table is never mutated: after any sequence of
\* update_charts calls it has the rows and the field values it had when
\* load_and_clean_data returned.
C9_BaseTableNeverMutated ==
    Loaded => df = load_and_clean_data(csv)

\* a call whose filtered view has fewer rows than the base table
C9_Witness ==
    /\ request # None
    /\ df # <<>>
    /\ Len(filtered_df) < Len(df)

DayRows == figures["day-of-week-analysis"].rows

\* C10 as claimed: the sorted day-of-week rows always begin with Monday and
\* end with Sunday.
C10_MondayToSunday ==
    pc = "serving" =>
        /\ DayRows # <<>>
        /\ DayRows[1].DayOfWeek = "Monday"
        /\ DayRows[Len(DayRows)].DayOfWeek = "Sunday"

\* the weekday number (dayofweek) of a day name of the table
WeekdayNumber(name) ==
    df[CHOOSE i \in DOMAIN df : df[i].DayOfWeekName = name].DayOfWeek

\* C10 as amended: the sorted day-of-week rows are one row for each weekday
\* that occurs in the table, in the order Monday to Sunday whatever the order
\* of the input rows; they begin with Monday only if the table has a Monday
\* appointment and end with Sunday only if it has a Sunday appointment.
C10_CanonicalOrderOfDaysPresent ==
    pc = "serving" =>
        /\ {DayRows[k].DayOfWeek : k \in DOMAIN DayRows}
               = {df[i].DayOfWeekName : i \in DOMAIN df}
        /\ \A j, k \in DOMAIN DayRows :
               j < k => WeekdayNumber(DayRows[j].DayOfWeek)
                            < WeekdayNumber(DayRows[k].DayOfWeek)
        /\ DayRows[1].DayOfWeek = "Monday"
               <=> \E i \in DOMAIN df : df[i].DayOfWeek = 0
        /\ DayRows[Len(DayRows)].DayOfWeek = "Sunday"
               <=> \E i \in DOMAIN df : df[i].DayOfWeek = DaysPerWeek - 1

\* a table whose first row is a Friday and whose second is a Thursday:
\* groupby lists Friday before Thursday, the sort puts Thursday first
C10_Witness ==
    /\ pc = "serving"
    /\ Len(df) = 2
    /\ df[1].DayOfWeekName = "Friday"
    /\ df[2].DayOfWeekName = "Thursday"
    /\ Len(DayRows) = 2
    /\ DayRows[1].DayOfWeek = "Thursday"

-----------------------------------------------------------------------------
(* The chart functions on their own *)

\* the neighbourhoods of the table t
Neighbourhoods(t) == {t[i].Neighbourhood : i \in DOMAIN t}

\* the number of appointments of the neighbourhood n in the table t
Appointments(t, n) == Cardinality({i \in DOMAIN t : t[i].Neighbourhood = n})

\* the rows of the figure fig are the top_n neighbourhoods of the table t
TopNeighbourhoods(fig, t, top_n) ==
    LET rows == fig.rows
        kept == {rows[k].Neighbourhood : k \in DOMAIN rows}
    IN  /\ Len(rows) = Min(top_n, Cardinality(Neighbourhoods(t)))
        /\ Cardinality(kept) = Len(rows)
        /\ kept \subseteq Neighbourhoods(t)
        /\ \A k \in DOMAIN rows :
               rows[k].TotalAppointments = Appointments(t, rows[k].Neighbourhood)
        /\ \A k \in 1..(Len(rows) - 1) :
               rows[k].TotalAppointments >= rows[k + 1].TotalAppointments
        /\ \A n \in kept : \A d \in Neighbourhoods(t) \ kept :
               Appointments(t, n) >= Appointments(t, d)

\* C11: create_neighborhood_analysis(df, top_n) keeps exactly
\* min(top_n, number of neighbourhoods) neighbourhoods, in descending order
\* of their appointment count, and no kept neighbourhood has fewer
\* appointments than a discarded one; the layout calls it with top_n = 15.
C11_TopNeighbourhoods ==
    /\ called # None /\ called.fn = "create_neighborhood_analysis"
           => TopNeighbourhoods(called.result, df, called.args[1])
    /\ pc = "serving"
           => TopNeighbourhoods(figures["neighborhood-analysis"], df, default_top_n)

\* a call with top_n = 1 on a table of two neighbourhoods: the one kept is
\* written in two ways in the file, has two appointments and comes after the
\* discarded one, of one appointment, in the order of the groups
C11_Witness ==
    /\ called # None /\ called.fn = "create_neighborhood_analysis"
    /\ called.args = <<1>>
    /\ Len(called.result.rows) = 1
    /\ called.result.rows[1].Neighbourhood = "Jardim Camburi"
    /\ called.result.rows[1].TotalAppointments = 2
    /\ Appointments(df, "Centro") = 1
    /\ \E i, j \in DOMAIN csv : csv[i].Neighbourhood # csv[j].Neighbourhood
                                   /\ StripTitle(csv[i].Neighbourhood) = "Jardim Camburi"
                                   /\ StripTitle(csv[j].Neighbourhood) = "Jardim Camburi"

-----------------------------------------------------------------------------
(* The entry points without the input file, and errors of the report *)

\* C12: without the input file the dashboard entry point reports the failure
\* and never starts the server; the reporting entry point ends with the
\* report or with a printed message, whether the file is missing or the
\* analysis raised another exception, never with an uncaught exception.
C12_FailuresReported ==
    /\ entry = "app.py" /\ ~file_exists
           => /\ pc \in {"load", "crashed"}
              /\ pc = "crashed" => output = Traceback("FileNotFoundError")
    /\ entry = "demo_insights.py" /\ pc = "exited"
           => /\ output.kind \in {"report", "message"}
              /\ ~file_exists
                     => output = [kind |-> "message",
                                  text |-> "medical_appointments.csv not found!"]
              /\ output.kind = "report"
                     => analyze_medical_appointments(file_exists, csv) = "None"

\* the dashboard started without the file: the process has ended with the
\* traceback of FileNotFoundError, before the layout and the server
C12_Witness ==
    /\ entry = "app.py"
    /\ ~file_exists
    /\ pc = "crashed"
    /\ output = Traceback("FileNotFoundError")
    /\ figures = None

-----------------------------------------------------------------------------
(* The waiting-time histogram *)

\* the rows of the table t up to the 95th percentile of DaysWaiting of t
UpToPercentile(t) ==
    LET p == quantile(Column(t, "DaysWaiting"))
        I == {i \in DOMAIN t : ~IsNaNFloat(p) /\ t[i].DaysWaiting * p.den <= p.num}
    IN  SelectSeq(t, LAMBDA r : r.AppointmentID \in {t[i].AppointmentID : i \in I})

\* the figure plots exactly the rows given, in their order
Plots(fig, rows) ==
    /\ fig.kind = "histogram"
    /\ Len(fig.rows) = Len(rows)
    /\ \A k \in DOMAIN rows : /\ fig.rows[k].DaysWaiting = rows[k].DaysWaiting
                                /\ fig.rows[k].No_show = rows[k].No_show

\* C13: create_waiting_time_analysis plots exactly the rows of its input
\* whose DaysWaiting is at most the 95th percentile of that same input: of
\* the whole table in the layout, of the filtered view in every
\* update_charts call that returns.
C13_PercentileOfTableGiven ==
    /\ pc = "serving" /\ request = None
           => Plots(figures["waiting-time-analysis"], UpToPercentile(df))
    /\ pc = "serving" /\ request # None /\ ~request.raised
           => Plots(figures["waiting-time-analysis"], UpToPercentile(filtered_df))

\* a call that returned on a view smaller than the table, where a row of
\* the view lies above the percentile of the view and is not plotted, yet is
\* at most the percentile of the whole table
C13_Witness ==
    /\ pc = "serving" /\ request # None /\ ~request.raised
    /\ filtered_df # df
    /\ \E i \in DOMAIN filtered_df :
           /\ LessEq(filtered_df[i].DaysWaiting, quantile(Column(df, "DaysWaiting")))
           /\ ~LessEq(filtered_df[i].DaysWaiting,
                      quantile(Column(filtered_df, "DaysWaiting")))
           /\ Len(figures["waiting-time-analysis"].rows) < Len(filtered_df)

-----------------------------------------------------------------------------
(* The medical conditions chart *)

\* the rows of the figure fig for one condition and one group
ConditionRows(fig, condition, group) ==
    {k \in DOMAIN fig.rows : /\ fig.rows[k].Condition = condition
                             /\ fig.rows[k].Group = group}

\* the figure has exactly one row for the presence and one for the absence
\* of the condition
TwoRows(fig, condition) ==
    /\ Cardinality({k \in DOMAIN fig.rows : fig.rows[k].Condition = condition}) = 2
    /\ Cardinality(ConditionRows(fig, condition, "With Condition")) = 1
    /\ Cardinality(ConditionRows(fig, condition, "Without Condition")) = 1

\* the row r of the table t is in exactly one of the two groups
InOneGroup(t, condition, r) ==
    (r \in Range(with_condition_rows(t, condition)))
        # (r \in Range(without_condition_rows(t, condition)))

\* C14: for each of the four conditions create_medical_conditions_analysis
\* produces exactly two rows, for presence and absence, and every input row
\* is counted in exactly one of the two groups, for any integer value of the
\* flag.
C14_GroupsPartitionInput ==
    called # None /\ called.fn = "create_medical_conditions_analysis"
        => \A k \in DOMAIN conditions4 :
               /\ TwoRows(called.result, conditions4[k])
               /\ \A i \in DOMAIN df : InOneGroup(df, conditions4[k], df[i])

-----------------------------------------------------------------------------
(* Groups without rows *)

\* no row of the figure of create_age_gender_analysis has a rate for a group
\* without rows
AgeGenderUndefined(fig) ==
    \A k \in DOMAIN fig.rows :
        fig.rows[k].count = 0 => IsNaNFloat(fig.rows[k].NoShowRate)

\* the medical conditions chart has no rate for a group without rows
ConditionsUndefined(fig, t) ==
    \A k \in DOMAIN fig.rows :
        LET flag == IF fig.rows[k].Group = "With Condition" THEN 1 ELSE 0
        IN  (\A i \in DOMAIN t : t[i][fig.rows[k].Condition] # flag)
                => IsNaNFloat(fig.rows[k].NoShowRate)

\* the bars under the label x have no rate when no row of t has the value
\* flag in the column col
BarUndefined(bars, x, t, col, flag) ==
    (\A i \in DOMAIN t : t[i][col] # flag)
        => \A k \in DOMAIN bars : bars[k].x = x => IsNaNFloat(bars[k].y)

\* C15: in the age-gender, the medical conditions and the SMS/scholarship
\* aggregation, and in the summary statistics of an empty table, a group
\* without rows has an undefined (NaN) rate, never a number such as 0%.
C15_EmptyGroupUndefined ==
    /\ pc = "serving" => AgeGenderUndefined(figures["age-gender-analysis"])
    /\ called # None /\ called.fn = "create_medical_conditions_analysis"
           => ConditionsUndefined(called.result, df)
    /\ called # None /\ called.fn = "create_sms_scholarship_analysis"
           => /\ BarUndefined(called.result.sms, "No SMS", df, "SMS_received", 0)
              /\ BarUndefined(called.result.sms, "SMS Received", df, "SMS_received", 1)
              /\ BarUndefined(called.result.scholarship, "No Scholarship",
                              df, "Scholarship", 0)
              /\ BarUndefined(called.result.scholarship, "Has Scholarship",
                              df, "Scholarship", 1)
    /\ stats # None /\ df = <<>>
           => /\ IsNaNFloat(stats.show_rate)
              /\ IsNaNFloat(stats.no_show_rate)

-----------------------------------------------------------------------------
(* The pie chart of the outcomes *)

\* the number of rows of the table t with the value v of NoShow_Binary
OutcomeCount(t, v) == Cardinality({i \in DOMAIN t : t[i].NoShow_Binary = v})

\* the figure is a pie whose slice of the given name carries the count n; a
\* count of 0 needs no slice
SliceCarries(fig, name, n) ==
    /\ fig.kind = "pie"
    /\ \A k \in DOMAIN fig.slices : fig.slices[k].name = name => fig.slices[k].value = n
    /\ n > 0 => \E k \in DOMAIN fig.slices : fig.slices[k].name = name

\* the pie chart shows the outcomes of the table t
ShowsOutcomes(fig, t) ==
    /\ SliceCarries(fig, "Showed Up", OutcomeCount(t, 0))
    /\ SliceCarries(fig, "No Show", OutcomeCount(t, 1))

\* C16: for the whole table in the layout and for the filtered view of
\* every update_charts call, the slice 'Showed Up' of the pie chart carries
\* the number of rows with NoShow_Binary = 0 and the slice 'No Show' the
\* number of rows with NoShow_Binary = 1, whichever outcome is more frequent
\* and also when only one outcome occurs.
C16_SlicesCarryOutcomeCounts ==
    /\ pc = "serving" /\ request = None
           => ShowsOutcomes(figures["no-show-overview"], df)
    /\ pc = "serving" /\ request # None
           => ShowsOutcomes(figures["no-show-overview"], filtered_df)

=============================================================================
